---- MODULE Spec2Model ----
(***************************************************************************)
(* flask_digest_auth/algo.py: the HTTP digest authentication algorithm.    *)
(*                                                                         *)
(* make_password_hash and calc_response (with its helpers __calc_ha1 and   *)
(* __calc_ha2) are modelled as operators on strings, computed as the code  *)
(* computes them, and as calls that run line by line in call slots, each   *)
(* with its own frame (arguments, the locals ha1 and ha2, the outcome).    *)
(*                                                                         *)
(* Strings are TLA+ strings.  md5(b).hexdigest() is the one-way hash taken *)
(* as collision-free: the digest of b is written "<b>", a string that      *)
(* determines b and that no input string (none holds "<" or ">") equals.   *)
(***************************************************************************)
EXTENDS Integers, Sequences, FiniteSets, TLC

\* ------------------------------------------------------------------ bounds

\* The number of call slots that run concurrently under SpecConc.
NCalls == 2
\* The number of distinct values of each free-text argument of calc_response
\* (nonce, cnonce, nc, body).
NVals == 2
\* The longest realm, username and password handed to make_password_hash.
MaxLen == 1

\* ------------------------------------------------------------------ values

\* Python's None.  No argument string of the model equals it.
None == "None"
\* The call site passed no algorithm argument (the default applies).
Omitted == "(omitted)"

\* str.encode("utf8"): the model's strings are ASCII, whose UTF-8 encoding is
\* the same sequence of code units.
encode_utf8(s) == s

\* md5(b).hexdigest(), as an injective symbolic digest.
md5_hexdigest(b) == "<" \o b \o ">"

\* A function's outcome: the value it returns or the exception it raises.
Returns(v) == [kind |-> "return", val |-> v]
Raises(msg) == [kind |-> "raise", val |-> msg]
Pending == [kind |-> "none", val |-> None]

\* ---------------------------------------------------------------- functions

\* Faulty variants of make_password_hash: the realm left out of the hashed string; the
\* realm put first.
make_password_hash_no_realm(realm, username, password) ==
    md5_hexdigest(encode_utf8(username \o ":" \o password))
make_password_hash_realm_first(realm, username, password) ==
    md5_hexdigest(encode_utf8(realm \o ":" \o username \o ":" \o password))

make_password_hash(realm, username, password) ==
    md5_hexdigest(encode_utf8(username \o ":" \o realm \o ":" \o password))

__calc_ha1(password_hash, nonce, algorithm, cnonce) ==
    IF algorithm = None \/ algorithm = "MD5"
    THEN Returns(password_hash)
    ELSE IF algorithm = "MD5-sess"
    THEN IF cnonce = None
         THEN Raises("Missing \"cnonce\" with algorithm=\"" \o algorithm \o "\"")
         ELSE Returns(md5_hexdigest(encode_utf8(
                  password_hash \o ":" \o nonce \o ":" \o cnonce)))
    ELSE Raises("Unsupported algorithm=\"" \o algorithm \o "\"")

\* Faulty variants of __calc_ha2: auth-int without a body hashes an empty body; an
\* unknown qop is handled like auth; the body is embedded unhashed.
calc_ha2_body_optional(method, uri, qop, body) ==
    IF qop = None \/ qop = "auth"
    THEN Returns(md5_hexdigest(encode_utf8(method \o ":" \o uri)))
    ELSE IF qop = "auth-int"
    THEN Returns(md5_hexdigest(encode_utf8(
             method \o ":" \o uri \o ":"
             \o md5_hexdigest(IF body = None THEN "" ELSE body))))
    ELSE Raises("Unsupported qop=\"" \o qop \o "\"")
calc_ha2_any_qop(method, uri, qop, body) ==
    IF qop = "auth-int"
    THEN IF body = None
         THEN Raises("Missing \"body\" with qop=\"" \o qop \o "\"")
         ELSE Returns(md5_hexdigest(encode_utf8(
                  method \o ":" \o uri \o ":" \o md5_hexdigest(body))))
    ELSE Returns(md5_hexdigest(encode_utf8(method \o ":" \o uri)))
calc_ha2_raw_body(method, uri, qop, body) ==
    IF qop = None \/ qop = "auth"
    THEN Returns(md5_hexdigest(encode_utf8(method \o ":" \o uri)))
    ELSE IF qop = "auth-int"
    THEN IF body = None
         THEN Raises("Missing \"body\" with qop=\"" \o qop \o "\"")
         ELSE Returns(md5_hexdigest(encode_utf8(
                  method \o ":" \o uri \o ":" \o body)))
    ELSE Raises("Unsupported qop=\"" \o qop \o "\"")

__calc_ha2(method, uri, qop, body) ==
    IF qop = None \/ qop = "auth"
    THEN Returns(md5_hexdigest(encode_utf8(method \o ":" \o uri)))
    ELSE IF qop = "auth-int"
    THEN IF body = None
         THEN Raises("Missing \"body\" with qop=\"" \o qop \o "\"")
         ELSE Returns(md5_hexdigest(encode_utf8(
                  method \o ":" \o uri \o ":" \o md5_hexdigest(body))))
    ELSE Raises("Unsupported qop=\"" \o qop \o "\"")

\* Faulty variants of calc_response_tail: with qop unset, nc is hashed in when given;
\* with qop auth or auth-int, cnonce is put before nc.
tail_nc_in_legacy(ha1v, ha2v, nonce, qop, cnonce, nc) ==
    IF qop = None
    THEN IF nc = None
         THEN Returns(md5_hexdigest(encode_utf8(
                  ha1v \o ":" \o nonce \o ":" \o ha2v)))
         ELSE Returns(md5_hexdigest(encode_utf8(
                  ha1v \o ":" \o nonce \o ":" \o nc \o ":" \o ha2v)))
    ELSE IF cnonce = None
    THEN Raises("Missing \"cnonce\" with the qop=\"" \o qop \o "\"")
    ELSE IF nc = None
    THEN Raises("Missing \"nc\" with the qop=\"" \o qop \o "\"")
    ELSE Returns(md5_hexdigest(encode_utf8(
             ha1v \o ":" \o nonce \o ":" \o nc \o ":" \o cnonce \o ":"
             \o qop \o ":" \o ha2v)))
tail_swapped_fields(ha1v, ha2v, nonce, qop, cnonce, nc) ==
    IF qop = None
    THEN Returns(md5_hexdigest(encode_utf8(ha1v \o ":" \o nonce \o ":" \o ha2v)))
    ELSE IF cnonce = None
    THEN Raises("Missing \"cnonce\" with the qop=\"" \o qop \o "\"")
    ELSE IF nc = None
    THEN Raises("Missing \"nc\" with the qop=\"" \o qop \o "\"")
    ELSE Returns(md5_hexdigest(encode_utf8(
             ha1v \o ":" \o nonce \o ":" \o cnonce \o ":" \o nc \o ":"
             \o qop \o ":" \o ha2v)))

\* Lines 65-78 of calc_response, once ha1 and ha2 are bound.  A function body
\* that ends without a return statement returns None.
calc_response_tail(ha1v, ha2v, nonce, qop, cnonce, nc) ==
    IF qop = None
    THEN Returns(md5_hexdigest(encode_utf8(ha1v \o ":" \o nonce \o ":" \o ha2v)))
    ELSE IF qop = "auth" \/ qop = "auth-int"
    THEN IF cnonce = None
         THEN Raises("Missing \"cnonce\" with the qop=\"" \o qop \o "\"")
         ELSE IF nc = None
         THEN Raises("Missing \"nc\" with the qop=\"" \o qop \o "\"")
         ELSE Returns(md5_hexdigest(encode_utf8(
                  ha1v \o ":" \o nonce \o ":" \o nc \o ":" \o cnonce \o ":"
                  \o qop \o ":" \o ha2v)))
    ELSE IF cnonce = None
    THEN Raises("Unsupported qop=\"" \o qop \o "\"")
    ELSE Returns(None)

\* Faulty variant of BindAlgorithm: the default is None, as in __calc_ha1's signature.
BindAlgorithmNone(arg) == IF arg = Omitted THEN None ELSE arg

\* The algorithm parameter after the default of the signature is applied.
BindAlgorithm(arg) == IF arg = Omitted THEN "MD5-sess" ELSE arg

\* calc_response as one function of its bound parameters: an exception of a
\* helper leaves the function at once.
calc_response(a) ==
    LET r1 == __calc_ha1(a.password_hash, a.nonce, a.algorithm, a.cnonce)
        r2 == __calc_ha2(a.method, a.uri, a.qop, a.body)
    IN  IF r1.kind = "raise" THEN r1
        ELSE IF r2.kind = "raise" THEN r2
        ELSE calc_response_tail(r1.val, r2.val, a.nonce, a.qop, a.cnonce, a.nc)

\* ------------------------------------------------------------------- inputs

Vals(prefix) == {prefix \o ToString(i) : i \in 1..NVals}
Opt(S) == {None} \cup S

Alphabet == {"a", ":"}
RECURSIVE StrsUpTo(_)
StrsUpTo(n) ==
    IF n = 0 THEN {""}
    ELSE LET S == StrsUpTo(n - 1) IN S \cup {s \o c : s \in S, c \in Alphabet}

Slots == 1..NCalls

\* The arguments of a calc_response call, after parameter binding.
CRArgs(methods, uris, hashes, nonces, qops, algs, cnonces, ncs, bodies) ==
    {[fn |-> "calc_response", method |-> m, uri |-> u, password_hash |-> h,
      nonce |-> n, qop |-> q, algorithm_arg |-> al,
      algorithm |-> BindAlgorithm(al), cnonce |-> c, nc |-> k, body |-> b] :
        m \in methods, u \in uris, h \in hashes, n \in nonces, q \in qops,
        al \in algs, c \in cnonces, k \in ncs, b \in bodies}

MPHArgs(strs) ==
    {[fn |-> "make_password_hash", realm |-> r, username |-> u, password |-> p] :
        r \in strs, u \in strs, p \in strs}

StoredHash == make_password_hash("realm", "user", "pw")

\* One call run alone: every combination of algorithm, qop and optional
\* arguments.
WideCR ==
    CRArgs({"GET", "POST"}, {"/dir"}, {StoredHash}, Vals("n"),
           {None, "auth", "auth-int", "bogus"},
           {Omitted, None, "MD5", "MD5-sess", "ROT13"},
           Opt(Vals("c")), Opt(Vals("k")), Opt(Vals("b")))
WideMPH == MPHArgs(StrsUpTo(MaxLen + 1))

\* Two calls side by side.
PairCR ==
    CRArgs({"GET"}, {"/dir"}, {StoredHash}, {"n1"}, {None, "auth"},
           {None, "MD5", "MD5-sess"}, Opt(Vals("c")), Opt(Vals("k")), {None})
PairMPH == MPHArgs(StrsUpTo(MaxLen))

\* Any number of calls interleaved.
ConcCR ==
    CRArgs({"GET"}, {"/dir"}, {StoredHash}, {"n1", "n2"}, {None, "auth", "bogus"},
           {"MD5", "MD5-sess"}, {None, "c1"}, {"k1"}, {None})
ConcMPH == MPHArgs({"a", ":"})

\* -------------------------------------------------------------------- state

VARIABLES
    pc,       \* pc[p]: the line call p is at ("idle": no call in slot p)
    args,     \* args[p]: the function called and its bound parameters
    ha1,      \* ha1[p]: calc_response's local ha1 (None: not bound yet)
    ha2,      \* ha2[p]: calc_response's local ha2
    outcome   \* outcome[p]: what the call returned or raised

vars == <<pc, args, ha1, ha2, outcome>>

NoCall == [fn |-> "none"]

Init ==
    /\ pc = [p \in Slots |-> "idle"]
    /\ args = [p \in Slots |-> NoCall]
    /\ ha1 = [p \in Slots |-> None]
    /\ ha2 = [p \in Slots |-> None]
    /\ outcome = [p \in Slots |-> Pending]

\* A caller calls calc_response: a fresh frame with the parameters bound.
CallCalcResponse(p, A) ==
    /\ pc[p] = "idle"
    /\ \E a \in A :
        /\ args' = [args EXCEPT ![p] = a]
        /\ pc' = [pc EXCEPT ![p] = "l63"]
    /\ UNCHANGED <<ha1, ha2, outcome>>

CallMakePasswordHash(p, A) ==
    /\ pc[p] = "idle"
    /\ \E a \in A :
        /\ args' = [args EXCEPT ![p] = a]
        /\ pc' = [pc EXCEPT ![p] = "l37"]
    /\ UNCHANGED <<ha1, ha2, outcome>>

\* Line 37.
MakePasswordHash(p) ==
    /\ pc[p] = "l37"
    /\ outcome' = [outcome EXCEPT ![p] =
           Returns(make_password_hash(args[p].realm, args[p].username,
                                      args[p].password))]
    /\ pc' = [pc EXCEPT ![p] = "done"]
    /\ UNCHANGED <<args, ha1, ha2>>

\* Faulty variant of CalcHa1: ha1 is a module-level variable, one for all the frames.
CalcHa1Global(p) ==
    /\ pc[p] = "l63"
    /\ LET r == __calc_ha1(args[p].password_hash, args[p].nonce,
                           args[p].algorithm, args[p].cnonce)
       IN  IF r.kind = "raise"
           THEN /\ outcome' = [outcome EXCEPT ![p] = r]
                /\ pc' = [pc EXCEPT ![p] = "done"]
                /\ UNCHANGED ha1
           ELSE /\ ha1' = [q \in Slots |-> r.val]
                /\ pc' = [pc EXCEPT ![p] = "l64"]
                /\ UNCHANGED outcome
    /\ UNCHANGED <<args, ha2>>

\* Faulty variant of CalcHa1: the HA2 step's checks come first.
CalcHa1AfterHa2(p) ==
    /\ pc[p] = "l63"
    /\ LET r2 == __calc_ha2(args[p].method, args[p].uri, args[p].qop, args[p].body)
           r == __calc_ha1(args[p].password_hash, args[p].nonce,
                           args[p].algorithm, args[p].cnonce)
       IN  IF r2.kind = "raise" \/ r.kind = "raise"
           THEN /\ outcome' = [outcome EXCEPT ![p] =
                                   IF r2.kind = "raise" THEN r2 ELSE r]
                /\ pc' = [pc EXCEPT ![p] = "done"]
                /\ UNCHANGED ha1
           ELSE /\ ha1' = [ha1 EXCEPT ![p] = r.val]
                /\ pc' = [pc EXCEPT ![p] = "l64"]
                /\ UNCHANGED outcome
    /\ UNCHANGED <<args, ha2>>

\* Line 63: ha1 = __calc_ha1(password_hash, nonce, algorithm, cnonce).
CalcHa1(p) ==
    /\ pc[p] = "l63"
    /\ LET r == __calc_ha1(args[p].password_hash, args[p].nonce,
                         args[p].algorithm, args[p].cnonce)
       IN  IF r.kind = "raise"
           THEN /\ outcome' = [outcome EXCEPT ![p] = r]
                /\ pc' = [pc EXCEPT ![p] = "done"]
                /\ UNCHANGED ha1
           ELSE /\ ha1' = [ha1 EXCEPT ![p] = r.val]
                /\ pc' = [pc EXCEPT ![p] = "l64"]
                /\ UNCHANGED outcome
    /\ UNCHANGED <<args, ha2>>

\* Line 64: ha2 = __calc_ha2(method, uri, qop, body).
CalcHa2(p) ==
    /\ pc[p] = "l64"
    /\ LET r == __calc_ha2(args[p].method, args[p].uri, args[p].qop, args[p].body)
       IN  IF r.kind = "raise"
           THEN /\ outcome' = [outcome EXCEPT ![p] = r]
                /\ pc' = [pc EXCEPT ![p] = "done"]
                /\ UNCHANGED ha2
           ELSE /\ ha2' = [ha2 EXCEPT ![p] = r.val]
                /\ pc' = [pc EXCEPT ![p] = "l65"]
                /\ UNCHANGED outcome
    /\ UNCHANGED <<args, ha1>>

\* Lines 65-78.
Respond(p) ==
    /\ pc[p] = "l65"
    /\ outcome' = [outcome EXCEPT ![p] =
           calc_response_tail(ha1[p], ha2[p], args[p].nonce, args[p].qop,
                              args[p].cnonce, args[p].nc)]
    /\ pc' = [pc EXCEPT ![p] = "done"]
    /\ UNCHANGED <<args, ha1, ha2>>

\* The caller takes the outcome; the frame is gone.
Finish(p) ==
    /\ pc[p] = "done"
    /\ pc' = [pc EXCEPT ![p] = "idle"]
    /\ args' = [args EXCEPT ![p] = NoCall]
    /\ ha1' = [ha1 EXCEPT ![p] = None]
    /\ ha2' = [ha2 EXCEPT ![p] = None]
    /\ outcome' = [outcome EXCEPT ![p] = Pending]

Run(p) ==
    \/ MakePasswordHash(p)
    \/ CalcHa1(p)
    \/ CalcHa2(p)
    \/ Respond(p)
    \/ Finish(p)

\* One call at a time, run alone.
Next ==
    \/ CallCalcResponse(1, WideCR)
    \/ CallMakePasswordHash(1, WideMPH)
    \/ Run(1)

Spec == Init /\ [][Next]_vars

\* Two calls side by side.
NextPair ==
    \E p \in {1, 2} :
        \/ CallCalcResponse(p, PairCR)
        \/ CallMakePasswordHash(p, PairMPH)
        \/ Run(p)

SpecPair == Init /\ [][NextPair]_vars

\* NCalls calls in any interleaving.
NextConc ==
    \E p \in Slots :
        \/ CallCalcResponse(p, ConcCR)
        \/ CallMakePasswordHash(p, ConcMPH)
        \/ Run(p)

SpecConc == Init /\ [][NextConc]_vars

\* ------------------------------------------------------------------- claims

Done(p) == pc[p] = "done"
IsCR(p) == args[p].fn = "calc_response"
IsMPH(p) == args[p].fn = "make_password_hash"
DoneCR(p) == Done(p) /\ IsCR(p)
DoneMPH(p) == Done(p) /\ IsMPH(p)

Hash(s) == "<" \o s \o ">"
SupportedAlgorithm(al) == al \in {None, "MD5", "MD5-sess"}
SupportedQop(q) == q \in {None, "auth", "auth-int"}
QopRequested(q) == q \in {"auth", "auth-int"}

\* The reasons of a failure, as the code words them.
MissingCnonceForAlgorithm == Raises("Missing \"cnonce\" with algorithm=\"MD5-sess\"")
UnsupportedAlgorithm(al) == Raises("Unsupported algorithm=\"" \o al \o "\"")
MissingBody == Raises("Missing \"body\" with qop=\"auth-int\"")
UnsupportedQop(q) == Raises("Unsupported qop=\"" \o q \o "\"")
MissingCnonceForQop(q) == Raises("Missing \"cnonce\" with the qop=\"" \o q \o "\"")
MissingNcForQop(q) == Raises("Missing \"nc\" with the qop=\"" \o q \o "\"")

\* The HA1 step and the HA2 step of call p have succeeded.
Ha1Bound(p) == ha1[p] # None
Ha2Bound(p) == ha2[p] # None

\* The five conditions of an InvalidParameters failure.
Invalid(a) ==
    \/ a.algorithm = "MD5-sess" /\ a.cnonce = None
    \/ a.qop = "auth-int" /\ a.body = None
    \/ QopRequested(a.qop) /\ (a.cnonce = None \/ a.nc = None)
    \/ ~SupportedAlgorithm(a.algorithm)
    \/ ~SupportedQop(a.qop)

\* C1: a finished calc_response call has failed exactly when one of the five
\* conditions holds of its arguments (algorithm MD5-sess without cnonce, qop
\* auth-int without body, qop auth or auth-int without cnonce or nc, an
\* unsupported algorithm, an unsupported qop); in every other case it has
\* returned a digest.
C1_FailsIffInvalid ==
    \A p \in Slots : DoneCR(p) =>
        /\ outcome[p].kind \in {"return", "raise"}
        /\ outcome[p].kind = "raise" <=> Invalid(args[p])
        /\ outcome[p].kind = "return" => outcome[p].val # None

\* A call that fails on one condition alone: qop auth with cnonce and without nc.
C1_Witness ==
    \E p \in Slots :
        /\ DoneCR(p)
        /\ args[p].qop = "auth" /\ args[p].algorithm = "MD5"
        /\ args[p].cnonce # None /\ args[p].nc = None
        /\ outcome[p].kind = "raise"

\* C3: with qop auth or auth-int and HA1 and HA2 computed, a finished call
\* has failed with the missing-cnonce reason when cnonce is absent (nc absent
\* or not), with the missing-nc reason when only nc is absent, and has
\* otherwise returned the hash of HA1:nonce:nc:cnonce:qop:HA2, qop being the
\* value passed in.
C3_QopDigest ==
    \A p \in Slots :
        (DoneCR(p) /\ QopRequested(args[p].qop) /\ Ha1Bound(p) /\ Ha2Bound(p)) =>
            LET a == args[p] IN
            outcome[p] =
                IF a.cnonce = None THEN MissingCnonceForQop(a.qop)
                ELSE IF a.nc = None THEN MissingNcForQop(a.qop)
                ELSE Returns(Hash(ha1[p] \o ":" \o a.nonce \o ":" \o a.nc \o ":"
                                  \o a.cnonce \o ":" \o a.qop \o ":" \o ha2[p]))

\* A call with qop auth-int and cnonce, nc and body given has returned.
C3_Witness ==
    \E p \in Slots :
        /\ DoneCR(p) /\ args[p].qop = "auth-int"
        /\ args[p].cnonce # None /\ args[p].nc # None /\ args[p].body # None
        /\ Ha1Bound(p) /\ Ha2Bound(p)
        /\ outcome[p].kind = "return"

\* C4: with a qop other than unset, auth and auth-int, and the HA1 step
\* succeeded, a finished call has failed with the unsupported-qop reason,
\* cnonce present or absent; and no finished call has returned None.
C4_UnsupportedQopFails ==
    \A p \in Slots : DoneCR(p) =>
        /\ (~SupportedQop(args[p].qop) /\ Ha1Bound(p)) =>
               outcome[p] = UnsupportedQop(args[p].qop)
        /\ outcome[p] # Returns(None)
        /\ outcome[p] # Pending

\* An unsupported qop with cnonce present has failed as unsupported.
C4_Witness ==
    \E p \in Slots :
        /\ DoneCR(p) /\ args[p].qop = "bogus" /\ args[p].cnonce # None
        /\ Ha1Bound(p)
        /\ outcome[p] = UnsupportedQop("bogus")

\* C5: once line 63 has run, ha1 is the credential hash itself for algorithm
\* MD5 or None, whatever nonce and cnonce are, and the hash of
\* password_hash:nonce:cnonce for MD5-sess with cnonce; a call made without
\* an algorithm argument and without cnonce has failed with the
\* missing-cnonce-for-MD5-sess reason, whatever qop is.
C5_Ha1 ==
    \A p \in Slots : (IsCR(p) /\ pc[p] # "l63") =>
        LET a == args[p] IN
        /\ a.algorithm \in {None, "MD5"} => ha1[p] = a.password_hash
        /\ (a.algorithm = "MD5-sess" /\ a.cnonce # None) =>
               ha1[p] = Hash(a.password_hash \o ":" \o a.nonce \o ":" \o a.cnonce)
        /\ (a.algorithm_arg = Omitted /\ a.cnonce = None) =>
               Done(p) /\ outcome[p] = MissingCnonceForAlgorithm

\* A call with neither algorithm nor cnonce nor qop has failed.
C5_Witness ==
    \E p \in Slots :
        /\ DoneCR(p) /\ args[p].algorithm_arg = Omitted
        /\ args[p].cnonce = None /\ args[p].qop = None
        /\ outcome[p] = MissingCnonceForAlgorithm

\* C6: once line 64 has run after a successful HA1 step, ha2 is the hash of
\* method:uri for qop unset or auth, whatever body is, and the hash of
\* method:uri:hash(body) for auth-int with a body; auth-int without a body has
\* failed with the missing-body reason.
C6_Ha2 ==
    \A p \in Slots : (IsCR(p) /\ Ha1Bound(p) /\ pc[p] \in {"l65", "done"}) =>
        LET a == args[p] IN
        /\ a.qop \in {None, "auth"} => ha2[p] = Hash(a.method \o ":" \o a.uri)
        /\ (a.qop = "auth-int" /\ a.body # None) =>
               ha2[p] = Hash(a.method \o ":" \o a.uri \o ":" \o Hash(a.body))
        /\ (a.qop = "auth-int" /\ a.body = None) =>
               Done(p) /\ outcome[p] = MissingBody

\* HA2 of an auth-int call with a body is bound.
C6_Witness ==
    \E p \in Slots :
        /\ IsCR(p) /\ pc[p] = "l65"
        /\ args[p].qop = "auth-int" /\ args[p].body # None
        /\ Ha2Bound(p)

\* C9: a finished call that fails reports the reason of the first failing
\* step: the HA1 reason when the algorithm is unsupported or MD5-sess lacks
\* cnonce, whatever qop, body and nc are; otherwise the HA2 reason when body
\* is missing for auth-int or qop is unsupported, whatever cnonce and nc are.
C9_FirstFailureReported ==
    \A p \in Slots : DoneCR(p) =>
        LET a == args[p]
            ha1Fails == ~SupportedAlgorithm(a.algorithm)
                        \/ (a.algorithm = "MD5-sess" /\ a.cnonce = None)
        IN  /\ ~SupportedAlgorithm(a.algorithm) =>
                   outcome[p] = UnsupportedAlgorithm(a.algorithm)
            /\ (a.algorithm = "MD5-sess" /\ a.cnonce = None) =>
                   outcome[p] = MissingCnonceForAlgorithm
            /\ (~ha1Fails /\ a.qop = "auth-int" /\ a.body = None) =>
                   outcome[p] = MissingBody
            /\ (~ha1Fails /\ ~SupportedQop(a.qop)) =>
                   outcome[p] = UnsupportedQop(a.qop)

\* Everything is wrong at once and the HA1 reason is the one reported.
C9_Witness ==
    \E p \in Slots :
        /\ DoneCR(p) /\ args[p].algorithm = "ROT13" /\ args[p].qop = "bogus"
        /\ args[p].cnonce = None /\ args[p].nc = None /\ args[p].body = None
        /\ outcome[p] = UnsupportedAlgorithm("ROT13")

Pair == {1, 2}

\* Two finished calc_response calls with qop unset that agree on method, uri,
\* password_hash, nonce and algorithm.
LegacyTwins(p, q) ==
    /\ DoneCR(p) /\ DoneCR(q)
    /\ args[p].qop = None /\ args[q].qop = None
    /\ args[p].method = args[q].method /\ args[p].uri = args[q].uri
    /\ args[p].password_hash = args[q].password_hash
    /\ args[p].nonce = args[q].nonce
    /\ args[p].algorithm = args[q].algorithm

\* With qop unset, a call that returns returns the hash of HA1:nonce:HA2.
LegacyDigest(p) ==
    (DoneCR(p) /\ args[p].qop = None /\ outcome[p].kind = "return") =>
        outcome[p] = Returns(Hash(ha1[p] \o ":" \o args[p].nonce \o ":" \o ha2[p]))

\* C2, as claimed: with qop unset the result is the hash of HA1:nonce:HA2, and
\* two calls that agree on method, uri, password_hash, nonce and algorithm give
\* the same result, however nc and cnonce differ (present or absent).
C2_AsClaimed ==
    \A p \in Pair :
        /\ LegacyDigest(p)
        /\ \A q \in Pair : LegacyTwins(p, q) => outcome[p] = outcome[q]

\* C2, amended: with qop unset the result is the hash of HA1:nonce:HA2; two
\* calls that agree on method, uri, password_hash, nonce and algorithm give
\* the same result when the algorithm is MD5 or None, however nc and cnonce
\* differ, and when the algorithm is MD5-sess and they agree on cnonce,
\* however nc differs; with MD5-sess and different cnonce the results differ.
C2_LegacyDigest ==
    \A p \in Pair :
        /\ LegacyDigest(p)
        /\ \A q \in Pair : LegacyTwins(p, q) =>
               IF args[p].algorithm = "MD5-sess" /\ args[p].cnonce # args[q].cnonce
               THEN outcome[p] # outcome[q]
               ELSE outcome[p] = outcome[q]

\* Two calls with qop unset and algorithm MD5 that differ in cnonce (one has
\* none) and in nc have returned the same digest.
C2_Witness ==
    /\ LegacyTwins(1, 2)
    /\ args[1].algorithm = "MD5"
    /\ args[1].cnonce = None /\ args[2].cnonce # None
    /\ args[1].nc # args[2].nc
    /\ outcome[1].kind = "return" /\ outcome[1] = outcome[2]

\* The number of the fields realm, username, password in which two calls differ.
FieldsChanged(p, q) ==
    (IF args[p].realm # args[q].realm THEN 1 ELSE 0)
    + (IF args[p].username # args[q].username THEN 1 ELSE 0)
    + (IF args[p].password # args[q].password THEN 1 ELSE 0)

\* The string username:realm:password of a make_password_hash call.
Joined(p) == args[p].username \o ":" \o args[p].realm \o ":" \o args[p].password

\* C7: a finished make_password_hash call has returned a hash, whatever its
\* arguments (empty strings included); two calls that differ in exactly one of
\* realm, username, password hashed different strings and returned different
\* hashes.
C7_Sensitive ==
    \A p \in Pair : DoneMPH(p) =>
        /\ outcome[p] = Returns(Hash(Joined(p)))
        /\ \A q \in Pair : (DoneMPH(q) /\ FieldsChanged(p, q) = 1) =>
               /\ Joined(p) # Joined(q)
               /\ outcome[p] # outcome[q]

\* Two calls that differ in the realm alone, one realm being empty.
C7_Witness ==
    /\ DoneMPH(1) /\ DoneMPH(2)
    /\ args[1].realm = "" /\ args[2].realm = ":"
    /\ FieldsChanged(1, 2) = 1
    /\ outcome[1].kind = "return" /\ outcome[2].kind = "return"
    /\ outcome[1] # outcome[2]

\* C10: two finished make_password_hash calls whose strings
\* username:realm:password are equal have returned the same hash, however many
\* of the three fields differ.
C10_JoinedStringDecides ==
    \A p \in Pair : \A q \in Pair :
        (DoneMPH(p) /\ DoneMPH(q) /\ Joined(p) = Joined(q)) =>
            outcome[p] = outcome[q]

\* Two different triples, a colon moved from the realm to the password, with
\* the same hash: the function is not injective on triples.
C10_Witness ==
    /\ DoneMPH(1) /\ DoneMPH(2)
    /\ args[1].username = "a" /\ args[1].realm = ":" /\ args[1].password = ""
    /\ args[2].username = "a" /\ args[2].realm = "" /\ args[2].password = ":"
    /\ FieldsChanged(1, 2) = 2
    /\ outcome[1].kind = "return" /\ outcome[1] = outcome[2]

\* What a call gives when it runs alone.
Alone(a) ==
    IF a.fn = "calc_response" THEN calc_response(a)
    ELSE Returns(make_password_hash(a.realm, a.username, a.password))

\* C8: in every interleaving of the calls, a finished call's outcome is the
\* outcome the same call gives run alone, and two finished calls with the same
\* arguments have the same outcome.
C8_NoSharedState ==
    \A p \in Slots : Done(p) =>
        /\ outcome[p] = Alone(args[p])
        /\ \A q \in Slots : (Done(q) /\ args[q] = args[p]) => outcome[q] = outcome[p]

\* Every slot holds a finished call, the first two the same call, and both
\* have returned the same digest.
C8_Witness ==
    /\ \A p \in Slots : DoneCR(p)
    /\ args[1] = args[2]
    /\ args[1].algorithm = "MD5-sess" /\ args[1].qop = "auth"
    /\ outcome[1].kind = "return" /\ outcome[1] = outcome[2]

====
